---- MODULE Spec2Model ----
(***************************************************************************)
(* A model of INDEC_consumer_price_index.py: the table extractor           *)
(* (populate_price_column_with_numbers), the link resolver                 *)
(* (find_and_return_xls_link) and the orchestrator (main).                 *)
(*                                                                         *)
(* Python sequences are 0-indexed, TLA+ sequences 1-indexed: position i of *)
(* the source is position i+1 here.                                        *)
(***************************************************************************)
EXTENDS Integers, Sequences, FiniteSets, TLC

(***************************************************************************)
(* Values.  Python's None is the string None below; no text cell of the    *)
(* vocabularies equals it.  A cell is a record [k, n, s]: its Python type, *)
(* its numeric value in thousandths, its text.                             *)
(***************************************************************************)
None == "None"

IntCell(v) == [k |-> "int", n |-> v * 1000, s |-> ""]
FloatCell(thousandths) == [k |-> "float", n |-> thousandths, s |-> ""]
BoolCell(b) == [k |-> "bool", n |-> IF b THEN 1000 ELSE 0, s |-> ""]
Str(t) == [k |-> "str", n |-> 0, s |-> t]
\* An empty cell: pandas reads it as the float NaN.
NaN == [k |-> "nan", n |-> 0, s |-> ""]

\* isinstance(value, str)
IsStr(c) == c.k = "str"

\* isinstance(value, (int, float)): bool is a subclass of int and NaN is a float.
IsIntOrFloat(c) == c.k \in {"int", "float", "bool", "nan"}

\* value > 0: every comparison with NaN is False.
GreaterThanZero(c) == c.k # "nan" /\ c.n > 0

\* The test of line 159.
IsPriceCell(c) == IsIntOrFloat(c) /\ GreaterThanZero(c)

\* round(price, 2): an int (a bool included) is returned as it is, a float goes to
\* the nearest hundredth (ties to even; the vocabularies hold no tie).
Round2(c) ==
    IF c.k \in {"int", "bool"} THEN c.n
    ELSE LET q == c.n \div 10
             r == c.n % 10
         IN  IF r < 5 THEN q * 10
             ELSE IF r > 5 THEN (q + 1) * 10
             ELSE IF q % 2 = 0 THEN q * 10 ELSE (q + 1) * 10

valid_regions == {"GBA", "Pampeana", "Noreste", "Noroeste", "Cuyo", "Patagonia"}

month_mapping ==
    ("Enero" :> "01") @@ ("Febrero" :> "02") @@ ("Marzo" :> "03") @@
    ("Abril" :> "04") @@ ("Mayo" :> "05") @@ ("Junio" :> "06") @@
    ("Julio" :> "07") @@ ("Agosto" :> "08") @@ ("Septiembre" :> "09") @@
    ("Octubre" :> "10") @@ ("Noviembre" :> "11") @@ ("Diciembre" :> "12")

\* re.search(r"\d{4}", s).group() on the texts of the vocabulary that
\* re.match(r"(?i)año \d{4}", s) accepts: the match is anchored at the start and
\* ignores case.
YearDigits == ("Año 2020" :> "2020") @@ ("año 2021" :> "2021")

re_match_year(t) == t \in DOMAIN YearDigits

re_search_digits(t) == YearDigits[t]

(***************************************************************************)
(* Workbooks.  A workbook is a sequence of sheets [name, grid]; a grid is  *)
(* a sequence of rows, each a sequence of cells.                           *)
(***************************************************************************)
\* str.lower() on the sheet names of the vocabulary.
LowerName ==
    ("Nacional" :> "nacional") @@ ("NACIONAL" :> "nacional") @@
    ("nacional" :> "nacional") @@ ("Hoja1" :> "hoja1") @@ ("Regiones" :> "regiones")

sheet_names(book) == [i \in 1..Len(book) |-> book[i].name]

RECURSIVE FirstSheetMatch(_, _, _)
FirstSheetMatch(sheets, wanted, i) ==
    IF i > Len(sheets) THEN sheets[1]
    ELSE IF LowerName[sheets[i]] = LowerName[wanted] THEN sheets[i]
    ELSE FirstSheetMatch(sheets, wanted, i + 1)

find_sheet_case_insensitive(book, wanted) ==
    FirstSheetMatch(sheet_names(book), wanted, 1)

\* pd.read_excel(excel_data, sheet_name=..., header=None): the grid of the sheet
\* of that exact name.
read_excel(book, name) ==
    book[CHOOSE i \in 1..Len(book) : book[i].name = name /\
        \A j \in 1..(i - 1) : book[j].name # name].grid

NumRows(grid) == Len(grid)

NumCols(grid) == Len(grid[1])

\* sheet_data.items() yields the columns left to right; column_data is one of them.
Column(grid, c) == [r \in 1..NumRows(grid) |-> grid[r][c]]

\* The nested loops of lines 156-157 visit the cells column by column, each
\* column top to bottom: the p-th cell visited.
NumCells(grid) == NumRows(grid) * NumCols(grid)

ColOf(grid, p) == ((p - 1) \div NumRows(grid)) + 1

RowOf(grid, p) == ((p - 1) % NumRows(grid)) + 1

VisitedCell(grid, p) == grid[RowOf(grid, p)][ColOf(grid, p)]

\* The visits from p on that pass the test of line 159.
PriceVisitsFrom(grid, p) ==
    {q \in p..NumCells(grid) : IsPriceCell(VisitedCell(grid, q))}

Min(S) == CHOOSE x \in S : \A y \in S : x <= y

(***************************************************************************)
(* Date inference, lines 161-182: the inner loop over the candidate's      *)
(* column.  acc = [date_found, year_found, last_year_found].               *)
(***************************************************************************)
RECURSIVE ColumnLoop(_, _, _)
ColumnLoop(column_data, cell_idx, acc) ==
    IF cell_idx > Len(column_data) THEN acc
    ELSE LET cell_value == column_data[cell_idx] IN
         IF ~IsStr(cell_value) THEN ColumnLoop(column_data, cell_idx + 1, acc)
         ELSE LET next ==
                      IF cell_value.s \in DOMAIN month_mapping
                      THEN [acc EXCEPT !.date_found = month_mapping[cell_value.s]]
                      ELSE IF re_match_year(cell_value.s)
                      THEN [acc EXCEPT !.year_found = re_search_digits(cell_value.s),
                                       !.last_year_found = re_search_digits(cell_value.s)]
                      ELSE acc
              IN  IF next.date_found # None /\ next.year_found # None
                  THEN next
                  ELSE ColumnLoop(column_data, cell_idx + 1, next)

\* DateScan without lines 175-176: a column's own year or none.
DateScanWithoutLastYear(column_data, last_year) ==
    ColumnLoop(column_data, 1,
        [date_found |-> None, year_found |-> None, last_year_found |-> last_year])

\* Lines 162-176: the loop, then the last year found when the column gave none.
DateScan(column_data, last_year) ==
    LET after == ColumnLoop(column_data, 1,
                     [date_found |-> None, year_found |-> None,
                      last_year_found |-> last_year])
    IN  IF after.date_found # None /\ after.year_found = None
        THEN [after EXCEPT !.year_found = after.last_year_found]
        ELSE after

\* Lines 179-182.
FullDate(date_found, year_found) ==
    IF date_found # None /\ year_found # None
    THEN year_found \o "-" \o date_found \o "-01"
    ELSE None

(***************************************************************************)
(* Region, product and unit inference, lines 184-214.                      *)
(***************************************************************************)
\* for next_value in row[from:]: the first text cell at a position >= from.
RECURSIVE FirstStrFrom(_, _, _)
FirstStrFrom(row, from, default) ==
    IF from > Len(row) THEN default
    ELSE IF IsStr(row[from]) THEN row[from].s
    ELSE FirstStrFrom(row, from + 1, default)

\* Lines 188-189: the positions whose cell is a region name.
RegionPositions(row) ==
    {i \in 1..Len(row) : IsStr(row[i]) /\ row[i].s \in valid_regions}

\* Lines 190-204.  The unit loop assigns product_found again, so the value
\* appended to unit_data is the product when the loop finds no text.
RegionBranch(row, idx) ==
    LET product_found == FirstStrFrom(row, idx + 1, None)
    IN  [region |-> row[idx].s,
         product |-> product_found,
         unit |-> FirstStrFrom(row, idx + 2, product_found)]

\* FallbackBranch appending unit_found, the third cell, to unit_data.
FallbackBranchThirdCell(row) ==
    [region |-> IF IsStr(row[1]) THEN row[1].s ELSE None,
     product |-> IF Len(row) > 1 /\ IsStr(row[2]) THEN row[2].s ELSE None,
     unit |-> IF Len(row) > 2 /\ IsStr(row[3]) THEN row[3].s ELSE None]

\* Lines 207-214.  unit_found is computed and product_found is appended.
FallbackBranch(row) ==
    LET product_found == IF Len(row) > 1 /\ IsStr(row[2]) THEN row[2].s ELSE None
    IN  [region |-> IF IsStr(row[1]) THEN row[1].s ELSE None,
         product |-> product_found,
         unit |-> product_found]

RowScan(row) ==
    IF RegionPositions(row) # {}
    THEN RegionBranch(row, Min(RegionPositions(row)))
    ELSE FallbackBranch(row)

\* create_empty_dataframe(): no rows.
create_empty_dataframe == << >>

\* Lines 220-226: the table of the five lists.
BuildFrame(old, prices, regions, products, units, dates) ==
    IF prices # << >>
    THEN [i \in 1..Len(prices) |->
            [Date |-> dates[i], Region |-> regions[i], Product |-> products[i],
             Unit |-> units[i], Price |-> Round2(prices[i])]]
    ELSE old

(***************************************************************************)
(* The sheets the checks range over.                                       *)
(***************************************************************************)
\* 150.504 and the int 2.
P1 == FloatCell(150504)

P2 == IntCell(2)

RowCols == 4

ColRows == 4

TableCols == 3

RowVals ==
    {P1, NaN, IntCell(0), Str("GBA"), Str("Cuyo"), Str("gba"), Str("Leche"),
     Str("Litro")}

ColVals ==
    {P1, NaN, BoolCell(TRUE), FloatCell(-1500), Str("Enero"), Str("Febrero"),
     Str("Año 2020"), Str("año 2021")}

\* One-row sheets.
RowSheets ==
    {<<r>> : r \in UNION {[1..n -> RowVals] : n \in 1..RowCols}}

\* One-column sheets.
ColSheets ==
    {[i \in 1..Len(c) |-> <<c[i]>>] :
        c \in UNION {[1..n -> ColVals] : n \in 1..ColRows}}

\* Sheets laid out as the published one: a row of year labels, a row of month
\* labels, a row of values.
TableSheets ==
    UNION {[1..n -> {NaN, Str("Año 2020"), Str("año 2021"), P2}]
               \X [1..n -> {NaN, Str("Enero")}]
               \X [1..n -> {NaN, P1}] : n \in 1..TableCols}

Sheets == RowSheets \cup ColSheets \cup TableSheets

Decoy == <<<<Str("Noreste"), Str("Pan"), IntCell(7)>>>>

\* A workbook whose only sheet is named as main asks, and workbooks of two sheets.
Workbooks ==
    {<<[name |-> "Nacional", grid |-> g]>> : g \in Sheets}
    \cup {<<[name |-> "Hoja1", grid |-> Decoy], [name |-> "NACIONAL", grid |-> g]>> :
            g \in {<<<<Str("Enero"), P1>>>>, <<<<P2>>, <<NaN>>>>}}
    \cup {<<[name |-> "Hoja1", grid |-> g], [name |-> "Regiones", grid |-> Decoy]>> :
            g \in {<<<<Str("GBA"), P1>>>>}}

(***************************************************************************)
(* Downloaded bytes, links and texts.                                      *)
(***************************************************************************)
\* What download_excel returns: None (kind "none"), or bytes: none at all
\* ("empty"), bytes that are no workbook ("garbage"), a workbook ("xls").
NoContent == [kind |-> "none", book |-> << >>]

Bytes(kind) == [kind |-> kind, book |-> << >>]

Xls(book) == [kind |-> "xls", book |-> book]

\* A URL or an href is the sequence of its pieces, "/" always a piece of its
\* own.  None, for a link, is the empty sequence: no link returned is empty.
NoLink == << >>

\* A text is the sequence of its characters; an optional text is a record.
NoText == [given |-> FALSE, chars |-> << >>]

Text(chars) == [given |-> TRUE, chars |-> chars]

(***************************************************************************)
(* State.                                                                  *)
(***************************************************************************)
VARIABLES
    file_content,     \* populate_price_column_with_numbers: the workbook
    sheet_name,       \* ... and the sheet asked for
    sheet_data,       \* the grid read, line 134
    visit,            \* the next visit of the loops of lines 156-157
    price_data, region_data, product_data, unit_data, date_data,
    last_year_found,  \* line 154
    df,               \* the frame passed in, then the one returned
    pc,               \* the extractor: "idle", "scan", "returned"
    phase,            \* the caller of the extractor
    returned,         \* the frames the extractor has returned, in order
    origin,           \* history: the (column, row) each appended entry came from
    mpc,              \* main: where it stands
    content,          \* main: the bytes downloaded last
    dynamic_url,      \* main: the link found on the fallback page
    events,           \* history: the calls main has made and what each gave
    response,         \* find_and_return_xls_link: what the GET of the page gave
    reference_text,   \* ... its reference_text
    link,             \* ... what it returned
    rpc               \* ... "call" before it runs, "done" after

extractor_vars ==
    <<file_content, sheet_name, sheet_data, visit, price_data, region_data,
      product_data, unit_data, date_data, last_year_found, df, pc, returned, origin>>

main_vars == <<mpc, content, dynamic_url, events>>

resolver_vars == <<response, reference_text, link, rpc>>

vars == <<extractor_vars, phase, main_vars, resolver_vars>>

\* last_year_found kept from one call to the next, as a module-level variable
\* would be.
KeptLastYear(left_over) == left_over

\* Line 154: last_year_found = None, whatever an earlier call left.
InitialLastYear(left_over) == None

\* CandidateDate reading only the cells above the candidate.
CandidateDateAbove(grid, col, row, last_year) ==
    DateScan(SubSeq(Column(grid, col), 1, row - 1), last_year)

\* Lines 161-176 for the candidate at (col, row): the whole column is scanned.
CandidateDate(grid, col, row, last_year) == DateScan(Column(grid, col), last_year)

\* Lines 130-154.
populate_begin(book, name, frame) ==
    /\ file_content' = book
    /\ sheet_name' = name
    /\ sheet_data' = read_excel(book, find_sheet_case_insensitive(book, name))
    /\ visit' = 1
    /\ price_data' = << >>
    /\ region_data' = << >>
    /\ product_data' = << >>
    /\ unit_data' = << >>
    /\ date_data' = << >>
    /\ last_year_found' = InitialLastYear(last_year_found)
    /\ df' = frame
    /\ origin' = << >>
    /\ pc' = "scan"

\* Lines 156-217: the loops run to the next cell that passes line 159, and its
\* body runs.
populate_step ==
    /\ pc = "scan"
    /\ PriceVisitsFrom(sheet_data, visit) # {}
    /\ LET p == Min(PriceVisitsFrom(sheet_data, visit))
           col_idx == ColOf(sheet_data, p)
           row_idx == RowOf(sheet_data, p)
           found == CandidateDate(sheet_data, col_idx, row_idx, last_year_found)
           inrow == RowScan(sheet_data[row_idx])
       IN  /\ price_data' = Append(price_data, VisitedCell(sheet_data, p))
           /\ date_data' = Append(date_data, FullDate(found.date_found, found.year_found))
           /\ region_data' = Append(region_data, inrow.region)
           /\ product_data' = Append(product_data, inrow.product)
           /\ unit_data' = Append(unit_data, inrow.unit)
           /\ last_year_found' = found.last_year_found
           /\ origin' = Append(origin, [col |-> col_idx, row |-> row_idx])
           /\ visit' = p + 1
    /\ UNCHANGED <<file_content, sheet_name, sheet_data, df, pc, phase, returned>>
    /\ UNCHANGED <<main_vars, resolver_vars>>

\* Lines 219-228: the loops are over.
populate_return ==
    /\ pc = "scan"
    /\ PriceVisitsFrom(sheet_data, visit) = {}
    /\ visit' = NumCells(sheet_data) + 1
    /\ df' = BuildFrame(df, price_data, region_data, product_data, unit_data, date_data)
    /\ returned' = Append(returned, df')
    /\ pc' = "returned"
    /\ UNCHANGED <<file_content, sheet_name, sheet_data, price_data, region_data,
                   product_data, unit_data, date_data, last_year_found, phase,
                   origin>>
    /\ UNCHANGED <<main_vars, resolver_vars>>

(***************************************************************************)
(* The extractor called twice in succession on the same bytes and sheet    *)
(* name, each time with an empty frame.                                    *)
(***************************************************************************)
\* The extractor before any call.
ExtractorIdle ==
    /\ sheet_data = << >>
    /\ visit = 1
    /\ price_data = << >>
    /\ region_data = << >>
    /\ product_data = << >>
    /\ unit_data = << >>
    /\ date_data = << >>
    /\ last_year_found = None
    /\ df = << >>
    /\ pc = "idle"
    /\ returned = << >>
    /\ origin = << >>

\* main not running.
MainIdle ==
    /\ mpc = "off"
    /\ content = NoContent
    /\ dynamic_url = NoLink
    /\ events = << >>

\* The resolver not running.
ResolverIdle ==
    /\ response = [ok |-> FALSE, anchors |-> << >>]
    /\ reference_text = NoText
    /\ link = NoLink
    /\ rpc = "off"

Init ==
    /\ file_content \in Workbooks
    /\ sheet_name \in (IF Len(file_content) = 1 THEN {"Nacional"}
                                                ELSE {"Nacional", "nacional"})
    /\ ExtractorIdle
    /\ phase = "first"
    /\ MainIdle
    /\ ResolverIdle

first_call ==
    /\ phase = "first"
    /\ pc = "idle"
    /\ populate_begin(file_content, sheet_name, create_empty_dataframe)
    /\ UNCHANGED <<phase, returned, main_vars, resolver_vars>>

second_call ==
    /\ phase = "first"
    /\ pc = "returned"
    /\ populate_begin(file_content, sheet_name, create_empty_dataframe)
    /\ phase' = "second"
    /\ UNCHANGED <<returned, main_vars, resolver_vars>>

Next ==
    \/ first_call
    \/ populate_step
    \/ populate_return
    \/ second_call

Spec == Init /\ [][Next]_vars

(***************************************************************************)
(* find_and_return_xls_link.  The page fetched is [ok, anchors]: ok is     *)
(* FALSE when session.get or raise_for_status raised a RequestException;   *)
(* an anchor is [has_href, href, text].                                    *)
(***************************************************************************)
\* str.lower() on the characters of the vocabulary.
LowerChar ==
    ("I" :> "i") @@ ("P" :> "p") @@ ("C" :> "c") @@ ("i" :> "i") @@
    ("p" :> "p") @@ ("c" :> "c") @@ ("x" :> "x")

Lower(chars) == [i \in 1..Len(chars) |-> LowerChar[chars[i]]]

\* sub in chars
Contains(sub, chars) ==
    \E k \in 1..(Len(chars) - Len(sub) + 1) :
        SubSeq(chars, k, k + Len(sub) - 1) = sub

\* href.endswith(".xls"): ".xls" is always a piece of its own.
EndsWithXls(href) == Len(href) > 0 /\ href[Len(href)] = ".xls"

\* result.startswith("http"): "http" is always a piece of its own.
StartsWithHttp(href) == Len(href) > 0 /\ href[1] = "http"

\* "/".join(page_url.split("/")[:3]): the URL up to its third "/".
RECURSIVE UpToSlash(_, _, _)
UpToSlash(url, i, slashes) ==
    IF i > Len(url) THEN url
    ELSE IF url[i] = "/" /\ slashes = 2 THEN SubSeq(url, 1, i - 1)
    ELSE UpToSlash(url, i + 1, IF url[i] = "/" THEN slashes + 1 ELSE slashes)

base_url(page_url) == UpToSlash(page_url, 1, 0)

HasHref(a) == a.has_href

IsXlsLink(a) == EndsWithXls(a.href)

\* Line 39.
TextMatches(a, ref) == Contains(Lower(ref.chars), Lower(a.text))

\* if reference_text: neither None nor the empty string.
Truthy(ref) == ref.given /\ ref.chars # << >>

\* select_link without the break of line 41: the last match wins.
select_link_last_match(xls_links, ref) ==
    LET matching == {k \in 1..Len(xls_links) : TextMatches(xls_links[k], ref)}
    IN  IF Truthy(ref) /\ matching # {}
        THEN xls_links[CHOOSE k \in matching : \A j \in matching : j <= k].href
        ELSE xls_links[Len(xls_links)].href

\* Lines 37-45, for a list of candidates that is not empty.
select_link(xls_links, ref) ==
    LET matching == {k \in 1..Len(xls_links) : TextMatches(xls_links[k], ref)}
    IN  IF Truthy(ref) /\ matching # {}
        THEN xls_links[Min(matching)].href
        ELSE xls_links[Len(xls_links)].href

\* Lines 47-50.
absolute_url(result, page_url) ==
    IF StartsWithHttp(result) THEN result ELSE base_url(page_url) \o result

find_and_return_xls_link(resp, page_url, ref) ==
    IF ~resp.ok THEN NoLink
    ELSE LET links == SelectSeq(resp.anchors, HasHref)
             xls_links == SelectSeq(links, IsXlsLink)
         IN  IF xls_links = << >> THEN NoLink
             ELSE absolute_url(select_link(xls_links, ref), page_url)

\* Line 232.
fallback_url ==
    <<"http", "s:", "/", "/", "www.indec.gob.ar", "/", "Nivel4", "/", "Tema",
      "/", "3", "/", "5", "/", "31">>

\* Line 233, the phrase shortened to three characters.
main_reference_text == Text(<<"I", "P", "C">>)

MaxAnchors == 3

Hrefs ==
    {<<"/", "ftp", "/", "a", ".xls">>,
     <<"http", "s:", "/", "/", "cdn.indec.gob.ar", "/", "b", ".xls">>,
     <<"d", ".xls">>,
     <<"/", "ftp", "/", "a", ".pdf">>}

LinkTexts == {<<"I", "P", "C">>, <<"x", "i", "p", "c">>, <<"I", "P">>}

Anchors ==
    {[has_href |-> TRUE, href |-> h, text |-> t] : h \in Hrefs, t \in LinkTexts}
    \cup {[has_href |-> FALSE, href |-> << >>, text |-> <<"I", "P", "C">>]}

Pages(n) == UNION {[1..m -> Anchors] : m \in 0..n}

Responses ==
    {[ok |-> TRUE, anchors |-> a] : a \in Pages(MaxAnchors)}
    \cup {[ok |-> FALSE, anchors |-> << >>]}

RefTexts == {NoText, Text(<< >>), Text(<<"i", "P", "c">>)}

ResolveInit ==
    /\ response \in Responses
    /\ reference_text \in RefTexts
    /\ link = NoLink
    /\ rpc = "call"
    /\ file_content = << >>
    /\ sheet_name = ""
    /\ ExtractorIdle
    /\ phase = "off"
    /\ MainIdle

find_link_call ==
    /\ rpc = "call"
    /\ link' = find_and_return_xls_link(response, fallback_url, reference_text)
    /\ rpc' = "done"
    /\ UNCHANGED <<response, reference_text, extractor_vars, phase, main_vars>>

ResolveNext == find_link_call

SpecResolve == ResolveInit /\ [][ResolveNext]_vars

(***************************************************************************)
(* main.  The network is the environment: each download and the fetch of   *)
(* the fallback page give any of the outcomes below.                       *)
(***************************************************************************)
\* is_valid_excel(content): pd.ExcelFile opens the bytes.
is_valid_excel(c) == c.kind = "xls"

\* Line 238 without its validity test.
NeedsFallbackOnlyNone(c) == c.kind = "none"

\* Line 238.
NeedsFallback(c) == c.kind = "none" \/ ~is_valid_excel(c)

\* Line 241 taking any value for a link.
LinkFoundAlways(url) == TRUE

\* Line 241: if dynamic_url.
LinkFound(url) == url # NoLink

\* Line 250: content is neither None nor empty, and is valid.
CanExtract(c) == c.kind \notin {"none", "empty"} /\ is_valid_excel(c)

Called(op, arg, out) == [op |-> op, arg |-> arg, out |-> out]

\* Line 255 commented out, as the other diagnostics of the file are.
report_nothing(log) == log

\* Line 255.
report_invalid(log) ==
    Append(log, Called("print", "", "The downloaded content is not a valid Excel file."))

MainSheets ==
    {<<<<Str("Año 2020"), NaN>>, <<Str("Enero"), Str("Febrero")>>, <<P1, P2>>>>,
     <<<<Str("GBA"), Str("Leche"), Str("Litro"), P1>>>>,
     <<<<Str("gba"), Str("Leche"), BoolCell(TRUE)>>>>,
     <<<<NaN, IntCell(0)>>>>}

MainBooks ==
    {<<[name |-> "Nacional", grid |-> g]>> : g \in MainSheets}
    \cup {<<[name |-> "Hoja1", grid |-> Decoy], [name |-> "NACIONAL", grid |-> g]>> :
            g \in {<<<<Str("Enero"), P1>>>>}}

DownloadOutcomes ==
    {NoContent, Bytes("empty"), Bytes("garbage")} \cup {Xls(b) : b \in MainBooks}

MainResponses ==
    {[ok |-> TRUE, anchors |-> a] : a \in Pages(1)}
    \cup {[ok |-> FALSE, anchors |-> << >>]}

MainInit ==
    /\ mpc = "start"
    /\ content = NoContent
    /\ dynamic_url = NoLink
    /\ events = << >>
    /\ file_content = << >>
    /\ sheet_name = ""
    /\ ExtractorIdle
    /\ phase = "off"
    /\ ResolverIdle

\* Line 235.
main_download ==
    /\ mpc = "start"
    /\ \E c \in DownloadOutcomes :
          /\ content' = c
          /\ events' = Append(events, Called("download_excel", "file_url", c.kind))
    /\ mpc' = "check"
    /\ UNCHANGED <<dynamic_url, extractor_vars, phase, resolver_vars>>

\* Line 238: is_valid_excel runs unless content is None.
main_check ==
    /\ mpc = "check"
    /\ events' = IF content.kind = "none" THEN events
                 ELSE Append(events, Called("is_valid_excel", "",
                                 IF is_valid_excel(content) THEN "True" ELSE "False"))
    /\ mpc' = IF NeedsFallback(content) THEN "fallback" ELSE "final"
    /\ UNCHANGED <<content, dynamic_url, extractor_vars, phase, resolver_vars>>

\* Line 240.
main_find_link ==
    /\ mpc = "fallback"
    /\ \E resp \in MainResponses :
          /\ dynamic_url' = find_and_return_xls_link(resp, fallback_url, main_reference_text)
          /\ events' = Append(events, Called("find_and_return_xls_link", "fallback_url",
                                  IF dynamic_url' = NoLink THEN "None" ELSE "url"))
    /\ mpc' = "branch"
    /\ UNCHANGED <<content, extractor_vars, phase, resolver_vars>>

\* Lines 241-243.
main_download_dynamic ==
    /\ mpc = "branch"
    /\ LinkFound(dynamic_url)
    /\ \E c \in DownloadOutcomes :
          /\ content' = c
          /\ events' = Append(events, Called("download_excel", "dynamic_url", c.kind))
    /\ mpc' = "final"
    /\ UNCHANGED <<dynamic_url, extractor_vars, phase, resolver_vars>>

\* Lines 245-248: return.
main_no_link ==
    /\ mpc = "branch"
    /\ ~LinkFound(dynamic_url)
    /\ mpc' = "done"
    /\ UNCHANGED <<content, dynamic_url, events, extractor_vars, phase, resolver_vars>>

\* Lines 250-252.
main_extract ==
    /\ mpc = "final"
    /\ CanExtract(content)
    /\ events' = events \o <<Called("is_valid_excel", "", "True"),
                             Called("populate_price_column_with_numbers", "Nacional", "")>>
    /\ populate_begin(content.book, "Nacional", create_empty_dataframe)
    /\ mpc' = "extract"
    /\ UNCHANGED <<content, dynamic_url, returned, phase, resolver_vars>>

\* Lines 254-255: is_valid_excel runs unless content is None or empty.
main_invalid ==
    /\ mpc = "final"
    /\ ~CanExtract(content)
    /\ events' = report_invalid(
                     IF content.kind \in {"none", "empty"} THEN events
                     ELSE Append(events, Called("is_valid_excel", "", "False")))
    /\ mpc' = "done"
    /\ UNCHANGED <<content, dynamic_url, extractor_vars, phase, resolver_vars>>

\* populate_price_column_with_numbers has returned: main ends.
main_end ==
    /\ mpc = "extract"
    /\ pc = "returned"
    /\ mpc' = "done"
    /\ UNCHANGED <<content, dynamic_url, events, extractor_vars, phase, resolver_vars>>

MainNext ==
    \/ main_download
    \/ main_check
    \/ main_find_link
    \/ main_download_dynamic
    \/ main_no_link
    \/ main_extract
    \/ main_invalid
    \/ populate_step
    \/ populate_return
    \/ main_end

SpecMain == MainInit /\ [][MainNext]_vars

(***************************************************************************)
(* The terms of the claims about the extractor, stated on the grid itself. *)
(***************************************************************************)
IsMonthToken(c) == c.k = "str" /\ c.s \in DOMAIN month_mapping

IsYearToken(c) == c.k = "str" /\ c.s \in {"Año 2020", "año 2021"}

YearOfToken(c) == IF c.s = "Año 2020" THEN "2020" ELSE "2021"

IsRegionName(c) ==
    c.k = "str" /\ c.s \in {"GBA", "Pampeana", "Noreste", "Noroeste", "Cuyo", "Patagonia"}

\* A cell holding a number, integer or real, strictly greater than 0.
IsPositiveNumber(c) == c.k \in {"int", "float"} /\ c.n > 0

Max(S) == CHOOSE x \in S : \A y \in S : y <= x

MonthRows(grid, c) == {r \in 1..NumRows(grid) : IsMonthToken(grid[r][c])}

YearRows(grid, c) == {r \in 1..NumRows(grid) : IsYearToken(grid[r][c])}

\* The text cells of a row at positions >= from.
TextAt(row, from) == {k \in from..Len(row) : row[k].k = "str"}

TextOrNone(row, from) ==
    IF TextAt(row, from) = {} THEN None ELSE row[Min(TextAt(row, from))].s

\* The extractor has returned its table.
Returned == pc = "returned"

\* The row of the grid the i-th Observation was emitted for.
ObsRow(i) == sheet_data[origin[i].row]

\* The place of cell (col, row) in the column-major enumeration of the grid.
Place(cell) == (cell.col - 1) * NumRows(sheet_data) + cell.row

PositiveNumberPlaces ==
    {(c - 1) * NumRows(sheet_data) + r : <<c, r>> \in
        {x \in (1..NumCols(sheet_data)) \X (1..NumRows(sheet_data)) :
            IsPositiveNumber(sheet_data[x[2]][x[1]])}}

\* The returned table lists exactly the cells of S, in column-major order.
TableListsCells(S) ==
    /\ Len(df) = Cardinality(S)
    /\ \A i \in 1..Len(df) :
          /\ Place(origin[i]) \in S
          /\ Cardinality({q \in S : q < Place(origin[i])}) = i - 1

(***************************************************************************)
(* C1.  The Observations returned correspond one-to-one and in order to    *)
(* the cells whose value is numeric and strictly greater than 0, in        *)
(* column-major order; every other cell contributes no Observation.        *)
(* The code does otherwise on a sheet with a boolean TRUE cell.            *)
(***************************************************************************)
C1_OneObservationPerPositiveNumber ==
    Returned => TableListsCells(PositiveNumberPlaces)

\* The same statement on the sheets that hold no boolean cell, where it holds.
NoBooleanCell ==
    \A r \in 1..NumRows(sheet_data) : \A c \in 1..NumCols(sheet_data) :
        sheet_data[r][c].k # "bool"

OneObservationPerPositiveNumberWithoutBooleans ==
    (Returned /\ NoBooleanCell) => TableListsCells(PositiveNumberPlaces)

(***************************************************************************)
(* C2.  Year persistence.                                                  *)
(***************************************************************************)
\* The month code of the last month token of column c.
LastMonthCode(c) == month_mapping[sheet_data[Max(MonthRows(sheet_data, c))][c].s]

\* The i-th entry comes from a column with a month token and no year token.
MonthOnlyColumn(i) ==
    /\ MonthRows(sheet_data, origin[i].col) # {}
    /\ YearRows(sheet_data, origin[i].col) = {}

\* The earlier columns that hold a year token.
EarlierYearColumns(c) == {j \in 1..(c - 1) : YearRows(sheet_data, j) # {}}

\* ... and from which an entry was emitted, so that date inference read them.
EarlierReadYearColumns(c) ==
    {j \in EarlierYearColumns(c) : \E k \in 1..Len(origin) : origin[k].col = j}

\* The last year token of column j.
LastYearToken(j) == YearOfToken(sheet_data[Max(YearRows(sheet_data, j))][j])

\* The year token date inference read last in column j: it reads the column top
\* down and stops once it holds both a month and a year.
LastReadYearToken(j) ==
    LET ys == YearRows(sheet_data, j)
        ms == MonthRows(sheet_data, j)
        stop == IF ms = {} THEN NumRows(sheet_data) ELSE Max({Min(ys), Min(ms)})
    IN  YearOfToken(sheet_data[Max({r \in ys : r <= stop})][j])

\* C2 as claimed: an Observation whose column holds a month token and no year
\* token is dated with the most recent year token of any earlier column.
C2_YearOfAnyEarlierColumn ==
    \A i \in 1..Len(date_data) :
        (MonthOnlyColumn(i) /\ EarlierYearColumns(origin[i].col) # {}) =>
            date_data[i] = LastYearToken(Max(EarlierYearColumns(origin[i].col)))
                               \o "-" \o LastMonthCode(origin[i].col) \o "-01"

\* C2 as amended: the year is the one date inference read last in the nearest
\* earlier column that holds a year token and a price candidate, and the Date is
\* absent when there is no such column.
C2_YearLastReadByDateInference ==
    \A i \in 1..Len(date_data) :
        MonthOnlyColumn(i) =>
            date_data[i] =
                IF EarlierReadYearColumns(origin[i].col) = {} THEN None
                ELSE LastReadYearToken(Max(EarlierReadYearColumns(origin[i].col)))
                         \o "-" \o LastMonthCode(origin[i].col) \o "-01"

\* Witness: a returned Observation of a month-only column dated with a year
\* carried over from an earlier column.
C2_Witness ==
    /\ Returned
    /\ \E i \in 1..Len(df) :
          /\ MonthOnlyColumn(i)
          /\ origin[i].col > 1
          /\ df[i].Date \in {"2020-01-01", "2021-01-01"}

(***************************************************************************)
(* C3.  With the leftmost region name of the candidate's row at position   *)
(* i: Region is that cell, Product the first text cell after i, Unit the   *)
(* first text cell after i+1, each absent when there is no such cell.      *)
(* The code gives Unit the Product's value when no text cell follows i+1.  *)
(***************************************************************************)
C3_RegionProductUnit ==
    \A i \in 1..Len(region_data) :
        LET row == ObsRow(i)
            regions == {k \in 1..Len(row) : IsRegionName(row[k])}
        IN  regions # {} =>
                /\ region_data[i] = row[Min(regions)].s
                /\ product_data[i] = TextOrNone(row, Min(regions) + 1)
                /\ unit_data[i] = TextOrNone(row, Min(regions) + 2)

C9_SecondCallReturnsTheSame ==
    /\ (pc = "scan" /\ visit = 1) => last_year_found = None
    /\ Len(returned) = 2 => returned[1] = returned[2]

\* Witness: the second call has returned a dated Observation, and the first
\* call left a year behind.
C9_Witness ==
    /\ phase = "second"
    /\ Len(returned) = 2
    /\ last_year_found # None
    /\ \E i \in 1..Len(returned[2]) : returned[2][i].Date # None

(***************************************************************************)
(* C10.  The Date depends on the candidate's column only: the Observations *)
(* of one column carry the same Date.                                      *)
(***************************************************************************)
C10_OneDatePerColumn ==
    \A i, j \in 1..Len(date_data) :
        origin[i].col = origin[j].col => date_data[i] = date_data[j]

\* Witness: two dated Observations of one column with a month or year label in
\* a row between theirs.
C10_Witness ==
    \E i, j \in 1..Len(date_data) :
        /\ origin[i].col = origin[j].col
        /\ date_data[i] # None
        /\ \E r \in (origin[i].row + 1)..(origin[j].row - 1) :
              \/ IsMonthToken(sheet_data[r][origin[i].col])
              \/ IsYearToken(sheet_data[r][origin[i].col])

(***************************************************************************)
(* The terms of the claims about main.                                     *)
(***************************************************************************)
EventsOf(op) == {k \in 1..Len(events) : events[k].op = op}

\* The primary fetch gave bytes that are a workbook.
PrimaryPresentAndValid == events[1].out = "xls"

\* The Fallback step has been entered.
FallbackEntered ==
    mpc = "fallback" \/ EventsOf("find_and_return_xls_link") # {}

Extracting == EventsOf("populate_price_column_with_numbers") # {}

\* Link resolution gave a URL and the bytes fetched from it are no workbook.
FallbackContentInvalid ==
    /\ \E k \in EventsOf("find_and_return_xls_link") : events[k].out = "url"
    /\ \E k \in EventsOf("download_excel") :
          events[k].arg = "dynamic_url" /\ events[k].out # "xls"

(***************************************************************************)
(* C5.  The extractor is invoked only on content that is present and has   *)
(* passed validation; the Fallback step is entered if and only if the      *)
(* primary fetch gave absent or invalid content, and a valid primary       *)
(* content goes directly to Extract.                                       *)
(***************************************************************************)
C5_ExtractOnlyValidFallbackIffInvalid ==
    /\ Extracting =>
          /\ content.kind = "xls"
          /\ file_content = content.book
          /\ \E k \in EventsOf("populate_price_column_with_numbers") :
                k > 1 /\ events[k - 1] = Called("is_valid_excel", "", "True")
    /\ mpc \notin {"off", "start", "check"} =>
          /\ FallbackEntered <=> ~PrimaryPresentAndValid
          /\ PrimaryPresentAndValid =>
                /\ mpc \in {"final", "extract", "done"}
                /\ Cardinality(EventsOf("download_excel")) = 1
                /\ mpc \in {"extract", "done"} => Extracting

\* Witness: the extractor has returned a table read from the bytes of the
\* fallback fetch.
C5_Witness ==
    /\ mpc = "done"
    /\ Extracting
    /\ FallbackEntered
    /\ Len(df) > 0

(***************************************************************************)
(* C6.  Link resolution gives a URL and the bytes fetched from it are not  *)
(* valid.                                                                  *)
(***************************************************************************)
\* C6 as claimed: the run ends without extraction and without a diagnostic.
C6_SilentOnInvalidFallbackContent ==
    (mpc = "done" /\ FallbackContentInvalid) =>
        /\ ~Extracting
        /\ EventsOf("print") = {}

\* C6 as amended: the run ends without extraction, and its last act is to print
\* the diagnostic, once.
C6_DiagnosticOnInvalidFallbackContent ==
    (mpc = "done" /\ FallbackContentInvalid) =>
        /\ ~Extracting
        /\ EventsOf("print") = {Len(events)}
        /\ events[Len(events)].out = "The downloaded content is not a valid Excel file."

\* Witness: such a run has ended, the bytes fetched being bytes of no workbook.
C6_Witness ==
    /\ mpc = "done"
    /\ FallbackContentInvalid
    /\ content.kind = "garbage"

(***************************************************************************)
(* C7.  When the primary content is absent or invalid and link resolution  *)
(* gives nothing, the run ends there: no fetch, validation, extraction or  *)
(* output follows the resolution.                                          *)
(***************************************************************************)
C7_NothingAfterNoLink ==
    \A k \in EventsOf("find_and_return_xls_link") :
        events[k].out = "None" =>
            /\ k = Len(events)
            /\ mpc \in {"branch", "done"}
            /\ EventsOf("print") = {}
            /\ ~Extracting
            /\ pc = "idle"

\* Witness: the run has ended after a resolution that gave nothing.
C7_Witness ==
    /\ mpc = "done"
    /\ ~PrimaryPresentAndValid
    /\ events[Len(events)] = Called("find_and_return_xls_link", "fallback_url", "None")

(***************************************************************************)
(* C8.  For a page whose fetch succeeds, the resolver returns nothing iff  *)
(* no anchor target ends with ".xls"; otherwise the link of the first      *)
(* candidate whose text contains reference_text case-insensitively when a  *)
(* reference_text is given (None and the empty text are none), and the     *)
(* link of the last candidate when none matches or none is given.  The     *)
(* link is the href, made absolute on the host of the page when relative.  *)
(***************************************************************************)
Candidates ==
    {k \in 1..Len(response.anchors) :
        /\ response.anchors[k].has_href
        /\ Len(response.anchors[k].href) > 0
        /\ response.anchors[k].href[Len(response.anchors[k].href)] = ".xls"}

SameLetters(a, b) ==
    /\ Len(a) = Len(b)
    /\ \A i \in 1..Len(a) :
          \E pair \in {{"I", "i"}, {"P", "p"}, {"C", "c"}, {"x"}} :
              a[i] \in pair /\ b[i] \in pair

MatchingCandidates ==
    {k \in Candidates :
        \E from \in 1..Len(response.anchors[k].text) :
            \E to \in from..Len(response.anchors[k].text) :
                SameLetters(SubSeq(response.anchors[k].text, from, to),
                            reference_text.chars)}

ReferenceGiven == reference_text.given /\ Len(reference_text.chars) > 0

ExpectedHref ==
    IF ReferenceGiven /\ MatchingCandidates # {}
    THEN response.anchors[Min(MatchingCandidates)].href
    ELSE response.anchors[Max(Candidates)].href

OnPageHost(href) ==
    IF href[1] = "http" THEN href
    ELSE <<"http", "s:", "/", "/", "www.indec.gob.ar">> \o href

C8_FirstMatchingElseLast ==
    (rpc = "done" /\ response.ok) =>
        /\ link = NoLink <=> Candidates = {}
        /\ Candidates # {} => link = OnPageHost(ExpectedHref)

\* Witness: the resolver has returned the link of the first matching candidate,
\* a later candidate matching too and the last candidate not matching.
C8_Witness ==
    /\ rpc = "done"
    /\ response.ok
    /\ ReferenceGiven
    /\ Cardinality(MatchingCandidates) > 1
    /\ Max(MatchingCandidates) < Max(Candidates)
    /\ link = OnPageHost(response.anchors[Min(MatchingCandidates)].href)
    /\ link # OnPageHost(response.anchors[Max(MatchingCandidates)].href)
    /\ link # OnPageHost(response.anchors[Max(Candidates)].href)
====
